---- MODULE Spec2Model ----
(***************************************************************************)
(* Model of the disassembly guide (steps.py) and of the element explorer   *)
(* (elementos.py): the dependency sequencer topo_sort_steps, the circular  *)
(* cursors sidx / idx kept in the Streamlit session state, the image       *)
(* lookups first_existing / all_existing / get_first_image_path, and the   *)
(* per-step part cursor of the design document, which the two scripts do   *)
(* not contain.                                                            *)
(***************************************************************************)
EXTENDS Integers, Sequences, FiniteSets, TLC

VARIABLES
  steps,          \* the list load_steps() returns
  pc,             \* topo_sort_steps: "start", "done" or "raised"
  queue,          \* topo_sort_steps: the queue once drained
  out,            \* topo_sort_steps: the returned list, as input positions
  app,            \* which script the session runs: "steps" or "elementos"
  elements,       \* the list load_elements() returns
  session_state,  \* st.session_state: the keys set so far and their values
  run,            \* how the last script run ended
  buttons,        \* the buttons the last script run rendered
  net,            \* cursor moves done so far: advances minus retreats
  disk,           \* the paths that exist
  dir_path,       \* first_existing / all_existing: the directory searched
  names,          \* the candidate file names, or None
  found,          \* what the lookups returned
  partCount,      \* the number of referenced parts of each ordered step
  step_index,     \* Navigation Cursor: the current step
  part_index,     \* Navigation Cursor: step id -> current part
  last_seen,      \* the step id selected at the previous pass, 0 for none
  last_op         \* the operation of the last pass

sortVars == <<pc, queue, out>>
navVars == <<app, elements, session_state, run, buttons, net>>
assetVars == <<disk, dir_path, names, found>>
partVars == <<partCount, step_index, part_index, last_seen, last_op>>
vars == <<steps, sortVars, navVars, assetVars, partVars>>

(***************************************************************************)
(* Bounds of the model.                                                    *)
(***************************************************************************)
MaxSteps == 3
MaxDepEntries == 3
MaxNavDepEntries == 1
MaxElements == 3
MaxNet == 4
MaxNames == 3
MaxParts == 3

(***************************************************************************)
(* Step records.  A step is [id, depends_on]; a step whose "id" key is     *)
(* missing, None or "" carries NoId (s.get("id") is falsy for all three).  *)
(***************************************************************************)
NoId == ""
StepIds == {"s1", "s2", "s3"}
UnknownId == "s9"
IdChoices == StepIds \cup {NoId}
DepIds == StepIds \cup {UnknownId}

RECURSIVE SumTo(_, _)
SumTo(lens, k) == IF k = 0 THEN 0 ELSE lens[k] + SumTo(lens, k - 1)

\* the list whose k-th step has id ids[k] and the next lens[k] entries of flat
\* as its depends_on
MkSteps(ids, lens, flat) ==
  [k \in 1..Len(ids) |->
     [id |-> ids[k],
      depends_on |-> [j \in 1..lens[k] |-> flat[SumTo(lens, k - 1) + j]]]]

\* The code compares ids only for equality and truthiness, so a list is
\* taken up to a renaming of its ids: the ids are first used in the order
\* s1, s2, s3 (a later step may repeat an earlier id or carry none).
FirstUseOrder(ids) ==
  \A k \in 1..Len(ids) :
    /\ ids[k] = "s2" => \E j \in 1..(k - 1) : ids[j] = "s1"
    /\ ids[k] = "s3" => \E j \in 1..(k - 1) : ids[j] = "s2"

\* every list of at most MaxSteps steps holding at most maxDeps depends_on
\* entries in all
IsInputWithin(ss, maxDeps) ==
  \E n \in 0..MaxSteps :
    \E ids \in [1..n -> IdChoices] :
      \E lens \in [1..n -> 0..maxDeps] :
        /\ FirstUseOrder(ids)
        /\ SumTo(lens, n) <= maxDeps
        /\ \E flat \in [1..SumTo(lens, n) -> DepIds] :
              ss = MkSteps(ids, lens, flat)

(***************************************************************************)
(* topo_sort_steps                                                         *)
(***************************************************************************)
InSeq(x, q) == \E k \in 1..Len(q) : q[k] = x

\* keys of id_to_step (and of indeg) in dict insertion order
RECURSIVE IdKeys(_, _, _)
IdKeys(ss, k, acc) ==
  IF k > Len(ss) THEN acc
  ELSE IdKeys(ss, k + 1,
              IF ss[k].id # NoId /\ ~InSeq(ss[k].id, acc)
              THEN Append(acc, ss[k].id) ELSE acc)

KeySet(ss) == {ss[k].id : k \in 1..Len(ss)} \ {NoId}

\* id_to_step[sid]: a later step with the same id overwrites the earlier one
id_to_step(ss, sid) ==
  CHOOSE k \in 1..Len(ss) :
    ss[k].id = sid /\ \A j \in (k + 1)..Len(ss) : ss[j].id # sid

\* indeg[sid] += 1 on a sid that is no key of indeg raises KeyError
IndegRaises(ss) ==
  \E k \in 1..Len(ss) :
    /\ ss[k].id \notin KeySet(ss)
    /\ \E j \in 1..Len(ss[k].depends_on) : ss[k].depends_on[j] \in KeySet(ss)

\* a slip: an unknown dependency counted like a known one
CountEvery(deps, j, keys) == Len(deps) - j + 1

RECURSIVE CountKnown(_, _, _)
CountKnown(deps, j, keys) ==
  IF j > Len(deps) THEN 0
  ELSE (IF deps[j] \in keys THEN 1 ELSE 0) + CountKnown(deps, j + 1, keys)

RECURSIVE IndegLoop(_, _, _)
IndegLoop(ss, k, indeg) ==
  IF k > Len(ss) THEN indeg
  ELSE LET n == CountKnown(ss[k].depends_on, 1, DOMAIN indeg)
       IN IndegLoop(ss, k + 1,
                    IF n = 0 THEN indeg
                    ELSE [indeg EXCEPT ![ss[k].id] = @ + n])

Indeg(ss) == IndegLoop(ss, 1, [sid \in KeySet(ss) |-> 0])

\* a slip: the queue seeded in reverse order of appearance
RECURSIVE SeedQueueBackwards(_, _, _)
SeedQueueBackwards(keys, k, indeg) ==
  IF k > Len(keys) THEN <<>>
  ELSE SeedQueueBackwards(keys, k + 1, indeg)
       \o (IF indeg[keys[k]] = 0 THEN <<keys[k]>> ELSE <<>>)

RECURSIVE SeedQueue(_, _, _)
SeedQueue(keys, k, indeg) ==
  IF k > Len(keys) THEN <<>>
  ELSE (IF indeg[keys[k]] = 0 THEN <<keys[k]>> ELSE <<>>)
       \o SeedQueue(keys, k + 1, indeg)

SeqSet(q) == {q[k] : k \in 1..Len(q)}

\* for t in steps: lower the in-degree of the steps that depend on sid
RECURSIVE Scan(_, _, _, _)
Scan(ss, sid, k, st) ==
  IF k > Len(ss) THEN st
  ELSE LET tid == ss[k].id
           hit == /\ tid # NoId
                  /\ tid # sid
                  /\ InSeq(sid, ss[k].depends_on)
                  /\ tid \in DOMAIN st.indeg
       IN IF ~hit THEN Scan(ss, sid, k + 1, st)
          ELSE LET ind == [st.indeg EXCEPT ![tid] = @ - 1]
                   enq == ind[tid] = 0 /\ tid \notin st.seen
               IN Scan(ss, sid, k + 1,
                       [indeg |-> ind,
                        queue |-> IF enq THEN Append(st.queue, tid) ELSE st.queue,
                        seen |-> IF enq THEN st.seen \cup {tid} ELSE st.seen])

\* while i < len(queue): returns the queue once it is drained; ordered holds
\* the same ids in the same order
RECURSIVE Kahn(_, _, _)
Kahn(ss, i, st) ==
  IF i > Len(st.queue) THEN st.queue
  ELSE Kahn(ss, i + 1, Scan(ss, st.queue[i], 1, st))

Drain(ss) ==
  LET q0 == SeedQueue(IdKeys(ss, 1, <<>>), 1, Indeg(ss))
  IN Kahn(ss, 1, [indeg |-> Indeg(ss), queue |-> q0, seen |-> SeqSet(q0)])

\* a slip: the leftovers appended from the last step to the first
RECURSIVE RestBackwards(_, _, _)
RestBackwards(ss, k, ordered) ==
  IF k > Len(ss) THEN ordered
  ELSE LET s == ss[Len(ss) - k + 1]
       IN RestBackwards(ss, k + 1,
                        IF s.id # NoId /\ ~InSeq(s.id, ordered)
                        THEN Append(ordered, s.id) ELSE ordered)

\* for s in steps: if sid and sid not in ordered: ordered.append(sid)
RECURSIVE Rest(_, _, _)
Rest(ss, k, ordered) ==
  IF k > Len(ss) THEN ordered
  ELSE Rest(ss, k + 1,
            IF ss[k].id # NoId /\ ~InSeq(ss[k].id, ordered)
            THEN Append(ordered, ss[k].id) ELSE ordered)

\* the ids in their final order
Ordered(ss) == Rest(ss, 1, Drain(ss))

\* the returned list, each record named by its position in the input
topo_sort_steps(ss) ==
  LET o == Ordered(ss)
  IN [k \in 1..Len(o) |-> id_to_step(ss, o[k])]

(***************************************************************************)
(* The sequencer called on one input.                                      *)
(***************************************************************************)
NoState == [k \in {} |-> 0]

SortIdle == pc = "idle" /\ queue = <<>> /\ out = <<>>

NavIdle ==
  /\ app = "none"
  /\ elements = <<>>
  /\ session_state = NoState
  /\ run = "none"
  /\ buttons = {}
  /\ net = 0

AssetIdle ==
  /\ disk = {}
  /\ dir_path = ""
  /\ names = [none |-> TRUE, items |-> <<>>]
  /\ found = [first |-> <<>>, all |-> <<>>, image |-> <<>>, called |-> {}]

PartIdle ==
  /\ partCount = <<>>
  /\ step_index = 0
  /\ part_index = NoState
  /\ last_seen = 0
  /\ last_op = "none"

InitSort ==
  /\ IsInputWithin(steps, MaxDepEntries)
  /\ pc = "start"
  /\ queue = <<>>
  /\ out = <<>>
  /\ NavIdle
  /\ AssetIdle
  /\ PartIdle

TopoSortReturns ==
  /\ pc = "start"
  /\ ~IndegRaises(steps)
  /\ pc' = "done"
  /\ queue' = Drain(steps)
  /\ out' = topo_sort_steps(steps)
  /\ UNCHANGED <<steps, navVars, assetVars, partVars>>

TopoSortRaises ==
  /\ pc = "start"
  /\ IndegRaises(steps)
  /\ pc' = "raised"
  /\ UNCHANGED <<steps, queue, out, navVars, assetVars, partVars>>

NextSort == TopoSortReturns \/ TopoSortRaises

SpecSort == InitSort /\ [][NextSort]_vars

(***************************************************************************)
(* The two Streamlit scripts.  Every user interaction runs main() again    *)
(* from the top; st.session_state survives between the runs, and a button  *)
(* returns True in the run its click started.                              *)
(***************************************************************************)
\* a slip: the remainder truncated toward zero (the % of C)
TruncMod(a, n) == IF a < 0 THEN 0 - ((0 - a) % n) ELSE a % n

\* Python's %: the sign of the result is the divisor's
PyMod(a, n) == a % n

\* whether a list of n entries has an entry i (a negative i counts from
\* the end)
Subscriptable(i, n) == 0 - n <= i /\ i < n

Clicks == {"none", "Anterior", "Siguiente"}

\* session_state with key set to 0 when the key is not in it yet
WithDefault(state, key) ==
  IF key \in DOMAIN state THEN state
  ELSE [k \in DOMAIN state \cup {key} |-> IF k = key THEN 0 ELSE state[k]]

\* the two buttons of main(): the new cursor, or "ZeroDivisionError"
AfterClick(cur, click, n) ==
  CASE click = "Anterior" -> PyMod(cur - 1, n)
    [] click = "Siguiente" -> PyMod(cur + 1, n)
    [] OTHER -> cur

Move(click) ==
  CASE click = "Anterior" -> -1
    [] click = "Siguiente" -> 1
    [] OTHER -> 0

\* a click needs its button on the page; the moves are counted up to MaxNet
CanClick(click) ==
  /\ click \in buttons \cup {"none"}
  /\ net + Move(click) \in (0 - MaxNet)..MaxNet

InitNav ==
  /\ app \in {"steps", "elementos"}
  /\ IF app = "steps"
     THEN IsInputWithin(steps, MaxNavDepEntries) /\ elements = <<>>
     ELSE steps = <<>> /\ elements \in {[k \in 1..n |-> k] : n \in 0..MaxElements}
  /\ session_state = NoState
  /\ run = "none"
  /\ buttons = {}
  /\ net = 0
  /\ SortIdle
  /\ AssetIdle
  /\ PartIdle

\* steps.py main(), one run
StepsRun(click) ==
  /\ app = "steps"
  /\ CanClick(click)
  /\ IF steps = <<>>
     THEN /\ run' = "no_data"
          /\ buttons' = {}
          /\ UNCHANGED <<session_state, net>>
     ELSE IF IndegRaises(steps)
     THEN /\ run' = "KeyError"
          /\ buttons' = {}
          /\ UNCHANGED <<session_state, net>>
     ELSE LET ordered_steps == topo_sort_steps(steps)
              n == Len(ordered_steps)
              s0 == WithDefault(session_state, "sidx")
          IN IF click = "Anterior" /\ n = 0
             THEN /\ run' = "ZeroDivisionError"
                  /\ buttons' = {"Anterior"}
                  /\ session_state' = s0
                  /\ UNCHANGED net
             ELSE IF click = "Siguiente" /\ n = 0
             THEN /\ run' = "ZeroDivisionError"
                  /\ buttons' = {"Anterior", "Siguiente"}
                  /\ session_state' = s0
                  /\ UNCHANGED net
             ELSE LET sidx == AfterClick(s0.sidx, click, n)
                  IN /\ session_state' = [s0 EXCEPT !.sidx = sidx]
                     /\ buttons' = {"Anterior", "Siguiente"}
                     /\ net' = net + Move(click)
                     /\ run' = IF Subscriptable(sidx, n) THEN "ok" ELSE "IndexError"
  /\ UNCHANGED <<steps, app, elements, sortVars, assetVars, partVars>>

\* elementos.py main(), one run
ElementosRun(click) ==
  /\ app = "elementos"
  /\ CanClick(click)
  /\ IF elements = <<>>
     THEN /\ run' = "no_data"
          /\ buttons' = {}
          /\ UNCHANGED <<session_state, net>>
     ELSE LET n == Len(elements)
              s0 == WithDefault(session_state, "idx")
              idx == AfterClick(s0.idx, click, n)
          IN /\ session_state' = [s0 EXCEPT !.idx = idx]
             /\ buttons' = {"Anterior", "Siguiente"}
             /\ net' = net + Move(click)
             /\ run' = IF Subscriptable(idx, n) THEN "ok" ELSE "IndexError"
  /\ UNCHANGED <<steps, app, elements, sortVars, assetVars, partVars>>

NextNav ==
  \/ \E click \in Clicks : StepsRun(click)
  \/ \E click \in Clicks : ElementosRun(click)

SpecNav == InitNav /\ [][NextNav]_vars

(***************************************************************************)
(* The image lookups.  A path is <<directory, name>>, None is <<>>.         *)
(***************************************************************************)
None == <<>>
STEPS_IMG_DIR == "imagenes montaje"
ELEMENTS_IMG_DIR == "images"
IMAGES_DIR == "images"
Dirs == {STEPS_IMG_DIR, ELEMENTS_IMG_DIR}
FileNames == {"a.png", "b.png"}

\* dir_path / name
Join(dir, name) == <<dir, name>>

\* p.exists()
PathExists(p) == p \in disk

\* names or []
OrEmpty(nm) == IF nm.none THEN <<>> ELSE nm.items

RECURSIVE FirstFrom(_, _, _)
FirstFrom(dir, items, k) ==
  IF k > Len(items) THEN None
  ELSE IF PathExists(Join(dir, items[k])) THEN Join(dir, items[k])
  ELSE FirstFrom(dir, items, k + 1)

\* a slip: the loop keeps going and returns the last candidate that exists
RECURSIVE LastFrom(_, _, _)
LastFrom(dir, items, k) ==
  IF k > Len(items) THEN None
  ELSE LET later == LastFrom(dir, items, k + 1)
       IN IF later # None THEN later
          ELSE IF PathExists(Join(dir, items[k])) THEN Join(dir, items[k])
          ELSE None

LastExisting(dir, nm) == LastFrom(dir, OrEmpty(nm), 1)

first_existing(dir, nm) == FirstFrom(dir, OrEmpty(nm), 1)

RECURSIVE AllFrom(_, _, _)
AllFrom(dir, items, k) ==
  IF k > Len(items) THEN <<>>
  ELSE (IF PathExists(Join(dir, items[k])) THEN <<Join(dir, items[k])>> ELSE <<>>)
       \o AllFrom(dir, items, k + 1)

all_existing(dir, nm) == AllFrom(dir, OrEmpty(nm), 1)

RECURSIVE FirstImageFrom(_, _)
FirstImageFrom(items, k) ==
  IF k > Len(items) THEN None
  ELSE IF PathExists(Join(IMAGES_DIR, items[k])) THEN Join(IMAGES_DIR, items[k])
  ELSE FirstImageFrom(items, k + 1)

get_first_image_path(images_list) == FirstImageFrom(OrEmpty(images_list), 1)

NameLists ==
  {[none |-> TRUE, items |-> <<>>]} \cup
  {[none |-> FALSE, items |-> q] :
     q \in UNION {[1..n -> FileNames] : n \in 0..MaxNames}}

InitAsset ==
  /\ disk \in SUBSET (Dirs \X FileNames)
  /\ dir_path \in Dirs
  /\ names \in NameLists
  /\ found = [first |-> None, all |-> <<>>, image |-> None, called |-> {}]
  /\ steps = <<>>
  /\ SortIdle
  /\ NavIdle
  /\ PartIdle

CallFirstExisting ==
  /\ "first_existing" \notin found.called
  /\ found' = [found EXCEPT !.first = first_existing(dir_path, names),
                            !.called = @ \cup {"first_existing"}]
  /\ UNCHANGED <<steps, sortVars, navVars, disk, dir_path, names, partVars>>

CallAllExisting ==
  /\ "all_existing" \notin found.called
  /\ found' = [found EXCEPT !.all = all_existing(dir_path, names),
                            !.called = @ \cup {"all_existing"}]
  /\ UNCHANGED <<steps, sortVars, navVars, disk, dir_path, names, partVars>>

CallGetFirstImagePath ==
  /\ "get_first_image_path" \notin found.called
  /\ found' = [found EXCEPT !.image = get_first_image_path(names),
                            !.called = @ \cup {"get_first_image_path"}]
  /\ UNCHANGED <<steps, sortVars, navVars, disk, dir_path, names, partVars>>

NextAsset == CallFirstExisting \/ CallAllExisting \/ CallGetFirstImagePath

SpecAsset == InitAsset /\ [][NextAsset]_vars

(***************************************************************************)
(* The Navigation State Machine with its per-step part cursor (design      *)
(* sections 3 and 4.2).  The ordered steps carry the ids 1..stepCount; one *)
(* pass is one user operation: the step move, then the reset guard, then   *)
(* the part move.                                                          *)
(***************************************************************************)
StepOps == {"advance_step", "retreat_step"}
PartOps == {"advance_part", "retreat_part"}

stepCount == Len(partCount)

\* the id of the step at position i of the ordered list
StepIdAt(i) == i + 1

\* step_index = (step_index +- 1) mod stepCount, a no-op without steps
StepMove(op, i) ==
  IF stepCount = 0 THEN i
  ELSE CASE op = "advance_step" -> PyMod(i + 1, stepCount)
         [] op = "retreat_step" -> PyMod(i - 1, stepCount)
         [] OTHER -> i

\* a slip: a step seen before keeps the part index it was left with
KeepOnChange(parts, cur, seen) ==
  IF cur \in DOMAIN parts THEN parts
  ELSE [k \in DOMAIN parts \cup {cur} |-> IF k = cur THEN 0 ELSE parts[k]]

\* the guard: a step id other than the last seen one starts at part 0
ResetOnChange(parts, cur, seen) ==
  IF cur = seen THEN parts
  ELSE [k \in DOMAIN parts \cup {cur} |-> IF k = cur THEN 0 ELSE parts[k]]

\* part_index = (part_index +- 1) mod partCount of the current step
PartMove(op, parts, cur) ==
  CASE op = "advance_part" ->
         [parts EXCEPT ![cur] = PyMod(@ + 1, partCount[cur])]
    [] op = "retreat_part" ->
         [parts EXCEPT ![cur] = PyMod(@ - 1, partCount[cur])]
    [] OTHER -> parts

\* the part operations are offered only on a step with two or more parts
Offered(op) ==
  /\ op = "render" \/ last_op # "none"
  /\ op \in PartOps =>
       /\ stepCount > 0
       /\ partCount[StepIdAt(step_index)] >= 2

InitPart ==
  /\ partCount \in UNION {[1..n -> 0..MaxParts] : n \in 0..MaxSteps}
  /\ step_index = 0
  /\ part_index = NoState
  /\ last_seen = 0
  /\ last_op = "none"
  /\ steps = <<>>
  /\ SortIdle
  /\ NavIdle
  /\ AssetIdle

Pass(op) ==
  /\ Offered(op)
  /\ last_op' = op
  /\ step_index' = StepMove(op, step_index)
  /\ IF stepCount = 0
     THEN UNCHANGED <<part_index, last_seen>>
     ELSE LET cur == StepIdAt(step_index')
          IN /\ last_seen' = cur
             /\ part_index' = PartMove(op, ResetOnChange(part_index, cur, last_seen), cur)
  /\ UNCHANGED <<steps, sortVars, navVars, assetVars, partCount>>

NextPart ==
  \/ Pass("render")
  \/ Pass("advance_step")
  \/ Pass("retreat_step")
  \/ Pass("advance_part")
  \/ Pass("retreat_part")

SpecPart == InitPart /\ [][NextPart]_vars

(***************************************************************************)
(* Vocabulary of the sequencer's properties.                               *)
(***************************************************************************)
\* the ids of the returned records, in order
OutIds == [k \in 1..Len(out) |-> steps[out[k]].id]

Pos(q, x) == CHOOSE k \in 1..Len(q) : q[k] = x

FirstIndex(ss, sid) ==
  CHOOSE k \in 1..Len(ss) :
    ss[k].id = sid /\ \A j \in 1..(k - 1) : ss[j].id # sid

\* <<a, b>>: some step with id b names the known id a in its depends_on
Edges(ss) ==
  {<<a, b>> \in KeySet(ss) \X KeySet(ss) :
     \E k \in 1..Len(ss) : ss[k].id = b /\ InSeq(a, ss[k].depends_on)}

\* the edges' transitive closure over the node set K
RECURSIVE Closure(_, _, _)
Closure(R, K, n) ==
  IF n = 0 THEN R
  ELSE Closure(R \cup {e \in K \X K :
                         \E m \in K : <<e[1], m>> \in R /\ <<m, e[2]>> \in R},
               K, n - 1)

Reach(ss) == Closure(Edges(ss), KeySet(ss), Cardinality(KeySet(ss)))

\* no id depends on itself, directly or through other known ids
Acyclic(ss) == \A a \in KeySet(ss) : <<a, a>> \notin Reach(ss)

\* every step has an id, no two steps share one
DistinctIds(ss) ==
  /\ \A k \in 1..Len(ss) : ss[k].id # NoId
  /\ \A j, k \in 1..Len(ss) : ss[j].id = ss[k].id => j = k

FileOrder(ss) == [k \in 1..Len(ss) |-> k]

\* C1: every input record is returned exactly once, the steps without an
\* id last and in file order
C1_Completeness ==
  pc = "done" =>
    /\ Len(out) = Len(steps)
    /\ \A k \in 1..Len(steps) : InSeq(k, out)
    /\ \A i, j \in 1..Len(out) :
         i < j /\ steps[out[i]].id = NoId =>
           steps[out[j]].id = NoId /\ out[i] < out[j]

\* C2: on an acyclic graph of resolvable dependencies, an id named in a
\* step's depends_on comes out before that step's id
C2_DependencyRespect ==
  pc = "done" /\ Acyclic(steps) =>
    \A e \in Edges(steps) :
      /\ InSeq(e[1], OutIds) /\ InSeq(e[2], OutIds)
      /\ Pos(OutIds, e[1]) < Pos(OutIds, e[2])

\* C3: the sequencer never raises
C3_NeverRaises == pc # "raised"

\* C4: the end-to-end example
Example ==
  <<[id |-> "s1", depends_on |-> <<>>],
    [id |-> "s2", depends_on |-> <<"s1">>],
    [id |-> "s3", depends_on |-> <<"s9">>]>>

RECURSIVE Unplaced(_, _, _)
Unplaced(keys, k, placed) ==
  IF k > Len(keys) THEN <<>>
  ELSE (IF InSeq(keys[k], placed) THEN <<>> ELSE <<keys[k]>>)
       \o Unplaced(keys, k + 1, placed)

AllOnCycle(ss) ==
  /\ Len(ss) > 0
  /\ DistinctIds(ss)
  /\ \A k \in 1..Len(ss) : <<ss[k].id, ss[k].id>> \in Reach(ss)

\* C5: steps that all lie on a cycle come out in file order; in general the
\* ids the queue never held follow the placed ones, in file order
C5_CycleSafety ==
  pc = "done" =>
    /\ AllOnCycle(steps) => out = FileOrder(steps)
    /\ OutIds = queue \o Unplaced(IdKeys(steps, 1, <<>>), 1, queue)

ThreeCycle ==
  <<[id |-> "s1", depends_on |-> <<"s3">>],
    [id |-> "s2", depends_on |-> <<"s1">>],
    [id |-> "s3", depends_on |-> <<"s2">>]>>

C5_Witness == steps = ThreeCycle /\ pc = "done" /\ queue = <<>> /\ Len(out) = 3

Unrelated(ss, a, b) == <<a, b>> \notin Reach(ss) /\ <<b, a>> \notin Reach(ss)

KeepsFileOrder(ss, a, b) ==
  FirstIndex(ss, a) < FirstIndex(ss, b) => Pos(OutIds, a) < Pos(OutIds, b)

NoResolvableDeps(ss, a) ==
  \A k \in 1..Len(ss) :
    ss[k].id = a =>
      \A j \in 1..Len(ss[k].depends_on) : ss[k].depends_on[j] \notin KeySet(ss)

Residue(a, n) ==
  CHOOSE r \in 0..(n - 1) :
    \E q \in (0 - MaxNet - 1)..(MaxNet + 1) : a = q * n + r

Circular(cur, n) ==
  /\ cur \in 0..(n - 1)
  /\ cur = Residue(net, n)
  /\ net = n => cur = 0
  /\ net = 0 - 1 => cur = n - 1
  /\ net = 0 => cur = 0

\* C7: with N >= 1 entries the cursor stays in [0, N) and equals advances
\* minus retreats modulo N (N advances from 0 give 0, one retreat from 0
\* gives N-1, an advance and a retreat cancel), for sidx and for idx
C7_CircularNavigation ==
  /\ app = "steps" /\ "sidx" \in DOMAIN session_state /\ Len(topo_sort_steps(steps)) >= 1
       => Circular(session_state.sidx, Len(topo_sort_steps(steps)))
  /\ app = "elementos" /\ "idx" \in DOMAIN session_state /\ Len(elements) >= 1
       => Circular(session_state.idx, Len(elements))

C7_Witness ==
  /\ app = "steps"
  /\ run = "ok"
  /\ Len(topo_sort_steps(steps)) = 3
  /\ net = 3
  /\ session_state.sidx = 0

C7_WitnessElementos ==
  /\ app = "elementos"
  /\ run = "ok"
  /\ Len(elements) = 3
  /\ net = 0 - 1
  /\ session_state.idx = 2

\* C8: with an empty ordered list (a steps file in which no step has an
\* id) no run of the script ends in an exception
C8_EmptySequenceSafe ==
  app = "steps" /\ steps # <<>> /\ ~IndegRaises(steps) /\ Len(topo_sort_steps(steps)) = 0
    => run \notin {"ZeroDivisionError", "IndexError"}

(***************************************************************************)
(* Properties of the image lookups.                                        *)
(***************************************************************************)
Candidates == IF names.none THEN <<>> ELSE names.items

OnDisk(dir, k) == <<dir, Candidates[k]>> \in disk

EarliestExisting(dir, res) ==
  IF \E k \in 1..Len(Candidates) : OnDisk(dir, k)
  THEN \E k \in 1..Len(Candidates) :
         /\ OnDisk(dir, k)
         /\ \A j \in 1..(k - 1) : ~OnDisk(dir, j)
         /\ res = <<dir, Candidates[k]>>
  ELSE res = <<>>

IsOnDisk(p) == p \in disk

\* C10: first_existing and get_first_image_path return the earliest
\* candidate that exists, None when there is none; all_existing returns the
\* existing candidates in order; first_existing is the head of all_existing
C10_AssetFallback ==
  /\ "first_existing" \in found.called => EarliestExisting(dir_path, found.first)
  /\ "get_first_image_path" \in found.called => EarliestExisting("images", found.image)
  /\ "all_existing" \in found.called =>
       found.all = SelectSeq([k \in 1..Len(Candidates) |-> <<dir_path, Candidates[k]>>],
                             IsOnDisk)
  /\ {"first_existing", "all_existing"} \subseteq found.called =>
       found.first = IF found.all = <<>> THEN <<>> ELSE Head(found.all)

\* only b.png exists: the lookups fall back to it
C10_Witness ==
  /\ found.called = {"first_existing", "all_existing", "get_first_image_path"}
  /\ dir_path = "images"
  /\ names = [none |-> FALSE, items |-> <<"a.png", "b.png">>]
  /\ disk = {<<"images", "b.png">>}
  /\ found.first = <<"images", "b.png">>
  /\ found.image = <<"images", "b.png">>
  /\ found.all = <<<<"images", "b.png">>>>

\* None for a candidate list: the lookups return nothing
C10_WitnessNone ==
  /\ found.called = {"first_existing", "all_existing", "get_first_image_path"}
  /\ names.none
  /\ disk # {}
  /\ found.first = <<>> /\ found.all = <<>>

(***************************************************************************)
(* Properties of the part cursor.                                          *)
(***************************************************************************)
Current == StepIdAt(step_index)

PartInRange ==
  \A id \in DOMAIN part_index :
    \/ part_index[id] \in 0..(partCount[id] - 1)
    \/ partCount[id] = 0 /\ part_index[id] = 0

\* once a pass has run, the current step is the last seen one: a part
\* operation never meets a step whose index was not reset
GuardRanFirst ==
  last_op # "none" /\ stepCount > 0 =>
    last_seen = Current /\ Current \in DOMAIN part_index

ResetStep ==
  /\ \A id \in DOMAIN part_index : id \in DOMAIN part_index'
  /\ \A id \in DOMAIN part_index' :
       \* a newly selected step starts at part 0
       /\ id = Current' /\ id # last_seen => part_index'[id] = 0
       \* the same step selected again, no part operation: unchanged
       /\ id = Current' /\ id = last_seen /\ last_op' \notin PartOps =>
            part_index'[id] = part_index[id]
       \* the part operations move the current step's index by one
       /\ id = Current' /\ last_op' = "advance_part" =>
            part_index'[id] = (part_index[id] + 1) % partCount[id]
       /\ id = Current' /\ last_op' = "retreat_part" =>
            part_index'[id] = (part_index[id] + partCount[id] - 1) % partCount[id]
       \* the other steps' indices are left alone
       /\ id # Current' => id \in DOMAIN part_index /\ part_index'[id] = part_index[id]

\* C9: each step id's part index stays in range; it is forced to 0 when
\* the selected step differs from the last seen one, before any part
\* operation; it is unchanged while the same step stays selected; the part
\* operations change only the current step's index, modulo its part count
C9_PartIndexReset ==
  /\ [](PartInRange /\ GuardRanFirst)
  /\ [][stepCount > 0 => ResetStep]_vars

\* back on step 1, whose index is 0 again, while step 2 still holds 2
C9_Witness ==
  /\ last_op \in StepOps
  /\ step_index = 0
  /\ DOMAIN part_index = {1, 2}
  /\ partCount[1] >= 2
  /\ part_index[1] = 0
  /\ part_index[2] = 2

====
